---- MODULE Spec2Model ----
(***************************************************************************)
(* SVAD - Simple Voice Activity Detector (src/svad.py).                    *)
(*                                                                         *)
(* The model follows the program from `if __name__ == "__main__"`:         *)
(* SVAD() is constructed, run() converts the sample files, opens the       *)
(* microphone stream and loops: read a block, evict, append the block's    *)
(* energy, compare.  A KeyboardInterrupt may arrive at any point of the    *)
(* try block and is handled by the two nested handlers of __main__.        *)
(*                                                                         *)
(* Numbers.  Sample amplitudes are small integers.  The program computes   *)
(* x * margin / 100 in floating point; the model keeps every such value    *)
(* exactly, in hundredths (the fields pls, mns, max_chunks_pls and         *)
(* max_chunks_mns hold 100 times the program's value), and compares        *)
(* 100 * v against them.  For integer margins the comparisons of the       *)
(* program have the same outcome as the exact ones.                        *)
(***************************************************************************)
EXTENDS Integers, Sequences, FiniteSets

\* ---------------------------------------------------------------- bounds
\* most sample files the glob returns
MaxFiles == 2
\* most samples in one sample file
MaxSamples == 2
\* most blocks read from the microphone in one run
MaxBlocks == 3
\* most samples in the sample file of the chunking specification
MaxChunkSamples == 5
\* most blocks read from the microphone in the end-to-end scenario
MaxScenarioBlocks == 6

\* config.BUFFER_SIZE and config.ERROR_MARGIN, the defaults of the program
BUFFER_SIZE == 1024
ERROR_MARGIN == 50

\* the divisor of the percentage computations (x * margin / 100)
Hundred == 100

\* sample amplitudes (np.abs is applied to them before summing)
Amps == {-1, 0}
\* values of --error_margin
Margins == {0, 50, 100}
\* values of --buffer_size
BufferSizes == {1, 2}

\* ------------------------------------------------------------- sequences
RECURSIVE SeqsUpTo(_, _)
SeqsUpTo(S, n) ==
    IF n = 0 THEN {<< >>}
    ELSE LET shorter == SeqsUpTo(S, n - 1)
         IN  shorter \cup {Append(s, x) : s \in {t \in shorter : Len(t) = n - 1}, x \in S}

RECURSIVE SeqsOfLen(_, _)
SeqsOfLen(S, n) ==
    IF n = 0 THEN {<< >>}
    ELSE {Append(s, x) : s \in SeqsOfLen(S, n - 1), x \in S}

\* one sample file: the data points librosa.load returns
Files == SeqsUpTo(Amps, MaxSamples)
\* what glob(sample_path + "/sample-*.wav") may return
Collections == SeqsUpTo(Files, MaxFiles)

\* ------------------------------------------------------- pure functions
Abs(x) == IF x < 0 THEN -x ELSE x

\* np.sum(np.abs(chunk)), summed by halves
RECURSIVE ChunkSum(_)
ChunkSum(chunk) ==
    IF Len(chunk) = 0 THEN 0
    ELSE IF Len(chunk) = 1 THEN Abs(chunk[1])
    ELSE LET half == Len(chunk) \div 2
         IN  ChunkSum(SubSeq(chunk, 1, half)) + ChunkSum(SubSeq(chunk, half + 1, Len(chunk)))

\* AmountOfChunks rounding up instead of down
AmountOfChunksCeil(data_points, bsize) == (Len(data_points) + bsize - 1) \div bsize

\* math.floor(data_shape[0] / self.buffer_size)
AmountOfChunks(data_points, bsize) == Len(data_points) \div bsize

\* ArraySplit into n chunks of equal length, the remainder dropped
ArraySplitEqual(data_points, n) ==
    LET each == Len(data_points) \div n
    IN  [k \in 1..n |-> SubSeq(data_points, (k - 1) * each + 1, k * each)]

\* np.array_split(data_points, n) for n > 0: the first (L mod n) chunks hold
\* (L div n) + 1 elements, the others (L div n); for n <= 0 it raises.
ArraySplit(data_points, n) ==
    LET L == Len(data_points)
        each == L \div n
        extras == L % n
        start(k) == (k - 1) * each + (IF k - 1 < extras THEN k - 1 ELSE extras)
        size(k) == each + (IF k <= extras THEN 1 ELSE 0)
    IN  [k \in 1..n |-> SubSeq(data_points, start(k) + 1, start(k) + size(k))]

\* ChunkData with the two bounds exchanged
ChunkDataSwapped(chunk, margin) ==
    LET chunk_sum == ChunkSum(chunk)
        chunk_five == chunk_sum * margin
    IN  [sum |-> chunk_sum,
         pls |-> Hundred * chunk_sum - chunk_five,
         mns |-> Hundred * chunk_sum + chunk_five]

\* ChunkData without the margin
ChunkDataNoMargin(chunk, margin) ==
    LET chunk_sum == ChunkSum(chunk)
    IN  [sum |-> chunk_sum, pls |-> Hundred * chunk_sum, mns |-> Hundred * chunk_sum]

\* chunk_data of one chunk; pls and mns in hundredths
ChunkData(chunk, margin) ==
    LET chunk_sum == ChunkSum(chunk)
        chunk_five == chunk_sum * margin
    IN  [sum |-> chunk_sum,
         pls |-> Hundred * chunk_sum + chunk_five,
         mns |-> Hundred * chunk_sum - chunk_five]

\* chunks_data of one sample file
ChunksData(data_points, bsize, margin) ==
    LET chunks == ArraySplit(data_points, AmountOfChunks(data_points, bsize))
    IN  [i \in 1..Len(chunks) |-> ChunkData(chunks[i], margin)]

\* the truth value Python gives a number in `if a and b`
Truthy(v) == v # 0

\* One position of the inner loop of compare_data: sample_data.get(i) is None
\* beyond the sample's chunks; the stream value is tested for truth before
\* the band comparison.
IsHit(sample_data, stack, i) ==
    /\ i <= Len(sample_data)
    /\ Truthy(stack[i])
    /\ sample_data[i].mns <= Hundred * stack[i]
    /\ Hundred * stack[i] <= sample_data[i].pls

\* chunk_match_hits after the inner loop of compare_data
ChunkMatchHits(sample_data, stack) ==
    Cardinality({i \in 1..Len(stack) : IsHit(sample_data, stack, i)})

\* WithinMargin without the lower threshold
WithinMarginNoFloor(hits, mns, pls) == Hundred * hits <= pls

\* the threshold comparison of compare_data
WithinMargin(hits, mns, pls) == mns <= Hundred * hits /\ Hundred * hits <= pls

\* compare_data: the loop over the samples returns in its first iteration,
\* with True or with False; over an empty dict it falls through (None).
RECURSIVE CompareFrom(_, _, _, _, _)
CompareFrom(k, samples, stack, mns, pls) ==
    IF k > Len(samples) THEN [ret |-> "None", hits |-> 0]
    ELSE LET chunk_match_hits == ChunkMatchHits(samples[k], stack)
         IN  IF WithinMargin(chunk_match_hits, mns, pls)
             THEN [ret |-> "True", hits |-> chunk_match_hits]
             ELSE [ret |-> "False", hits |-> chunk_match_hits]

\* compare_data as it would be with the `return False` after the loop: True
\* as soon as one sample is within the margin
RECURSIVE CompareAnyFrom(_, _, _, _, _)
CompareAnyFrom(k, samples, stack, mns, pls) ==
    IF k > Len(samples) THEN [ret |-> "False", hits |-> 0]
    ELSE LET chunk_match_hits == ChunkMatchHits(samples[k], stack)
             rest == CompareAnyFrom(k + 1, samples, stack, mns, pls)
         IN  IF WithinMargin(chunk_match_hits, mns, pls)
             THEN [ret |-> "True", hits |-> chunk_match_hits]
             ELSE [ret |-> rest.ret,
                   hits |-> IF k = Len(samples) THEN chunk_match_hits ELSE rest.hits]

CompareDataAny(samples, stack, mns, pls) == CompareAnyFrom(1, samples, stack, mns, pls)

CompareData(samples, stack, mns, pls) == CompareFrom(1, samples, stack, mns, pls)

\* Evicted with the comparison off by one: the stack grows to max_chunks + 1
EvictedLate(stack, maxc) == IF Len(stack) > maxc THEN Tail(stack) ELSE stack

\* the eviction of run: pop(0) when the stack has reached max_chunks
Evicted(stack, maxc) == IF Len(stack) >= maxc THEN Tail(stack) ELSE stack

\* AfterPush without the `continue`: every block is compared
AfterPushNoGuard(len, maxc) == "compare"

\* where run goes after the append: `continue` until the stack is filled
AfterPush(len, maxc) == IF len < maxc THEN "read" ELSE "compare"

\* AfterCompare without the `break`: the loop goes on after a match
AfterCompareNoBreak(ret) == "read"

\* where run goes after compare_data: the message box and `break` on True
AfterCompare(ret) == IF ret = "True" THEN "msgbox" ELSE "read"

\* RegistryAdd without the comparison: the last sample sets max_chunks
RegistryAddLast(reg, amount, margin) ==
    [max_chunks |-> amount,
     pls |-> Hundred * amount + amount * margin,
     mns |-> Hundred * amount - amount * margin]

\* RegistryAdd computing the margins before max_chunks is updated
RegistryAddStale(reg, amount, margin) ==
    IF amount > reg.max_chunks
    THEN [max_chunks |-> amount,
          pls |-> Hundred * amount + reg.max_chunks * margin,
          mns |-> Hundred * amount - reg.max_chunks * margin]
    ELSE reg

\* RegistryAdd taking the margin off on both sides
RegistryAddNoCeiling(reg, amount, margin) ==
    IF amount > reg.max_chunks
    THEN [max_chunks |-> amount,
          pls |-> Hundred * amount - amount * margin,
          mns |-> Hundred * amount - amount * margin]
    ELSE reg

\* the update of max_chunks, max_chunks_pls and max_chunks_mns in
\* convert_samples for a sample of `amount` chunks (margins in hundredths)
RegistryAdd(reg, amount, margin) ==
    IF amount > reg.max_chunks
    THEN [max_chunks |-> amount,
          pls |-> Hundred * amount + amount * margin,
          mns |-> Hundred * amount - amount * margin]
    ELSE reg

\* self.samples_chunk_stack[sample_file] = entry: a new key is added at the
\* end, a key the dict already holds keeps its place
Registered(stack, idx, entry) ==
    IF idx <= Len(stack) THEN [stack EXCEPT ![idx] = entry] ELSE Append(stack, entry)

\* ----------------------------------------------------------------- state
VARIABLES
    pc,                  \* where the program is
    sample_files,        \* the files glob returns, in its order
    file_idx,            \* the file the loop of convert_samples is at
    error_margin,        \* self.error_margin
    buffer_size,         \* self.buffer_size
    max_chunks,          \* self.max_chunks
    max_chunks_pls,      \* self.max_chunks_pls, in hundredths
    max_chunks_mns,      \* self.max_chunks_mns, in hundredths
    samples_chunk_stack, \* self.samples_chunk_stack, in insertion order
    stream,              \* self.stream: "None", "open" or "closed"
    data,                \* the block stream.read returned last
    stream_chunk_stack,  \* self.stream_chunk_stack
    blocks,              \* history: the energies appended so far
    reads,               \* history: number of stream.read calls that returned
    evals,               \* history: number of compare_data calls
    result,              \* history: what compare_data returned last, the hit
                         \* count it logged and the stack it compared
    exit_calls           \* history: number of calls of exit()

vars == <<pc, sample_files, file_idx, error_margin, buffer_size, max_chunks,
          max_chunks_pls, max_chunks_mns, samples_chunk_stack, stream, data,
          stream_chunk_stack, blocks, reads, evals, result, exit_calls>>

config_vars == <<sample_files, error_margin, buffer_size>>
registry_vars == <<max_chunks, max_chunks_pls, max_chunks_mns, samples_chunk_stack>>
loop_vars == <<data, stream_chunk_stack, blocks, reads, evals, result>>

\* no call of compare_data has returned yet
NoResult == [ret |-> "none", hits |-> 0, stack |-> << >>]

Init ==
    /\ pc = "construct"
    /\ sample_files \in Collections
    /\ file_idx = 1
    /\ error_margin \in Margins
    /\ buffer_size \in BufferSizes
    /\ max_chunks = 0
    /\ max_chunks_pls = 0
    /\ max_chunks_mns = 0
    /\ samples_chunk_stack = << >>
    /\ stream = "None"
    /\ data = << >>
    /\ stream_chunk_stack = << >>
    /\ blocks = << >>
    /\ reads = 0
    /\ evals = 0
    /\ result = NoResult
    /\ exit_calls = 0

\* --------------------------------------------------------------- actions
\* svad = SVAD(); svad.run() enters convert_samples
Construct ==
    /\ pc = "construct"
    /\ pc' = "convert"
    /\ UNCHANGED <<config_vars, file_idx, registry_vars, stream, loop_vars, exit_calls>>

\* max_chunks and its two margins, as one value
Registry == [max_chunks |-> max_chunks, pls |-> max_chunks_pls, mns |-> max_chunks_mns]

\* the update of max_chunks and its margins in convert_samples
NewMaxChunks(amount) == RegistryAdd(Registry, amount, error_margin).max_chunks
NewMaxChunksPls(amount) == RegistryAdd(Registry, amount, error_margin).pls
NewMaxChunksMns(amount) == RegistryAdd(Registry, amount, error_margin).mns

\* np.array_split raises ValueError unless the number of sections is > 0
SplitRaises(amount) == amount <= 0

\* one iteration of the loop of convert_samples that completes
ConvertSample ==
    /\ pc = "convert"
    /\ file_idx <= Len(sample_files)
    /\ LET data_points == sample_files[file_idx]
           amount_of_chunks == AmountOfChunks(data_points, buffer_size)
       IN  /\ ~SplitRaises(amount_of_chunks)
           /\ max_chunks' = NewMaxChunks(amount_of_chunks)
           /\ max_chunks_pls' = NewMaxChunksPls(amount_of_chunks)
           /\ max_chunks_mns' = NewMaxChunksMns(amount_of_chunks)
           /\ samples_chunk_stack' =
                  Registered(samples_chunk_stack, file_idx,
                             ChunksData(data_points, buffer_size, error_margin))
    /\ file_idx' = file_idx + 1
    /\ UNCHANGED <<pc, config_vars, stream, loop_vars, exit_calls>>

\* one iteration of the loop of convert_samples in which np.array_split
\* raises: the key is left with its empty list and the error ends the program
ConvertSampleRaises ==
    /\ pc = "convert"
    /\ file_idx <= Len(sample_files)
    /\ LET data_points == sample_files[file_idx]
           amount_of_chunks == AmountOfChunks(data_points, buffer_size)
       IN  /\ SplitRaises(amount_of_chunks)
           /\ max_chunks' = NewMaxChunks(amount_of_chunks)
           /\ max_chunks_pls' = NewMaxChunksPls(amount_of_chunks)
           /\ max_chunks_mns' = NewMaxChunksMns(amount_of_chunks)
           /\ samples_chunk_stack' = Registered(samples_chunk_stack, file_idx, << >>)
    /\ pc' = "crashed"
    /\ UNCHANGED <<config_vars, file_idx, stream, loop_vars, exit_calls>>

\* the loop of convert_samples is over; run goes on to load the microphone
ConvertDone ==
    /\ pc = "convert"
    /\ file_idx > Len(sample_files)
    /\ pc' = "open"
    /\ UNCHANGED <<config_vars, file_idx, registry_vars, stream, loop_vars, exit_calls>>

\* self.stream = self.load_microphone_stream()
LoadMicrophoneStream ==
    /\ pc = "open"
    /\ stream' = "open"
    /\ pc' = "read"
    /\ UNCHANGED <<config_vars, file_idx, registry_vars, loop_vars, exit_calls>>

\* p.open raises (no input device): the error ends the program
LoadMicrophoneStreamRaises ==
    /\ pc = "open"
    /\ pc' = "crashed"
    /\ UNCHANGED <<config_vars, file_idx, registry_vars, stream, loop_vars, exit_calls>>

\* data = self.stream.read(self.buffer_size)
ReadBlock ==
    /\ pc = "read"
    /\ reads < MaxBlocks
    /\ \E block \in SeqsOfLen(Amps, buffer_size) : data' = block
    /\ reads' = reads + 1
    /\ pc' = "push"
    /\ UNCHANGED <<config_vars, file_idx, registry_vars, stream, stream_chunk_stack,
                   blocks, evals, result, exit_calls>>

\* stream.read raises (input overflow): the error ends the program
ReadBlockRaises ==
    /\ pc = "read"
    /\ pc' = "crashed"
    /\ UNCHANGED <<config_vars, file_idx, registry_vars, stream, loop_vars, exit_calls>>

\* pop(0) of an empty list raises IndexError
PopRaises(stack, maxc) == Len(stack) >= maxc /\ stack = << >>

\* evict, sum the block and append; then `continue` or go on to compare
PushBlock ==
    /\ pc = "push"
    /\ ~PopRaises(stream_chunk_stack, max_chunks)
    /\ LET buffer_chunk_sum == ChunkSum(data)
           pushed == Append(Evicted(stream_chunk_stack, max_chunks), buffer_chunk_sum)
       IN  /\ stream_chunk_stack' = pushed
           /\ blocks' = Append(blocks, buffer_chunk_sum)
           /\ pc' = AfterPush(Len(pushed), max_chunks)
    /\ UNCHANGED <<config_vars, file_idx, registry_vars, stream, data, reads, evals,
                   result, exit_calls>>

\* the eviction raises: the error ends the program
PushBlockRaises ==
    /\ pc = "push"
    /\ PopRaises(stream_chunk_stack, max_chunks)
    /\ pc' = "crashed"
    /\ UNCHANGED <<config_vars, file_idx, registry_vars, stream, loop_vars, exit_calls>>

\* Compare with a compare_data that empties the stack it has compared
CompareClearing ==
    /\ pc = "compare"
    /\ LET r == CompareData(samples_chunk_stack, stream_chunk_stack,
                            max_chunks_mns, max_chunks_pls)
       IN  /\ result' = [ret |-> r.ret, hits |-> r.hits, stack |-> stream_chunk_stack]
           /\ pc' = AfterCompare(r.ret)
    /\ evals' = evals + 1
    /\ stream_chunk_stack' = << >>
    /\ UNCHANGED <<config_vars, file_idx, registry_vars, stream, data,
                   blocks, reads, exit_calls>>

\* if self.compare_data() == True: ... else next iteration
Compare ==
    /\ pc = "compare"
    /\ LET r == CompareData(samples_chunk_stack, stream_chunk_stack,
                            max_chunks_mns, max_chunks_pls)
       IN  /\ result' = [ret |-> r.ret, hits |-> r.hits, stack |-> stream_chunk_stack]
           /\ pc' = AfterCompare(r.ret)
    /\ evals' = evals + 1
    /\ UNCHANGED <<config_vars, file_idx, registry_vars, stream, data,
                   stream_chunk_stack, blocks, reads, exit_calls>>

\* the message box is closed; break; run returns and the program ends
MatchFound ==
    /\ pc = "msgbox"
    /\ pc' = "returned"
    /\ UNCHANGED <<config_vars, file_idx, registry_vars, stream, loop_vars, exit_calls>>

Interruptible == {"construct", "convert", "open", "read", "push", "compare", "msgbox"}

\* the handler finds the name svad bound once SVAD() has returned
HandlerFor(at) == IF at = "construct" THEN "handler_unbound" ELSE "handler"

\* a KeyboardInterrupt arrives inside the try block of __main__
KeyboardInterrupt ==
    /\ pc \in Interruptible
    /\ pc' = HandlerFor(pc)
    /\ UNCHANGED <<config_vars, file_idx, registry_vars, stream, loop_vars, exit_calls>>

\* except KeyboardInterrupt: svad.exit(); sys.exit(130)
HandlerExit ==
    /\ pc = "handler"
    /\ stream = "open"
    /\ stream' = "closed"
    /\ exit_calls' = exit_calls + 1
    /\ pc' = "sysexit"
    /\ UNCHANGED <<config_vars, file_idx, registry_vars, loop_vars>>

\* the interrupt arrived inside SVAD(): svad is not bound, svad.exit() is a
\* NameError and exit() is not entered
HandlerNameError ==
    /\ pc = "handler_unbound"
    /\ pc' = "crashed"
    /\ UNCHANGED <<config_vars, file_idx, registry_vars, stream, loop_vars, exit_calls>>

\* svad.exit() before the stream exists: None has no stop_stream
HandlerExitRaises ==
    /\ pc = "handler"
    /\ stream = "None"
    /\ exit_calls' = exit_calls + 1
    /\ pc' = "crashed"
    /\ UNCHANGED <<config_vars, file_idx, registry_vars, stream, loop_vars>>

\* except SystemExit: svad.exit(); os._exit(130).  What the audio library
\* does with a closed stream is not part of the program: either it raises
\* or the program reaches os._exit.
SystemExitHandler ==
    /\ pc = "sysexit"
    /\ exit_calls' = exit_calls + 1
    /\ pc' \in {"os_exit", "crashed"}
    /\ UNCHANGED <<config_vars, file_idx, registry_vars, stream, loop_vars>>

Next ==
    \/ Construct
    \/ ConvertSample
    \/ ConvertSampleRaises
    \/ ConvertDone
    \/ LoadMicrophoneStream
    \/ LoadMicrophoneStreamRaises
    \/ ReadBlock
    \/ ReadBlockRaises
    \/ PushBlock
    \/ PushBlockRaises
    \/ Compare
    \/ MatchFound
    \/ KeyboardInterrupt
    \/ HandlerExit
    \/ HandlerNameError
    \/ HandlerExitRaises
    \/ SystemExitHandler

Spec == Init /\ [][Next]_vars

\* the program has ended
Terminated == pc \in {"returned", "crashed", "os_exit"}

\* ---------------------------------------------------------------- claims
Min(a, b) == IF a < b THEN a ELSE b

\* the last n elements of a sequence
LastN(seq, n) == SubSeq(seq, Len(seq) - n + 1, Len(seq))

\* C1: the stream stack never holds more than max_chunks values, and after k
\* blocks have been appended it is the last min(k, max_chunks) of them, in
\* the order of arrival.
C1_WindowFifo ==
    /\ Len(stream_chunk_stack) <= max_chunks
    /\ stream_chunk_stack = LastN(blocks, Min(Len(blocks), max_chunks))

\* C1 witness: more blocks than max_chunks >= 2 were appended, the oldest
\* ones are gone and the stack starts and ends with different values.
C1_Witness ==
    /\ max_chunks >= 2
    /\ Len(blocks) > max_chunks
    /\ stream_chunk_stack[1] = blocks[Len(blocks) - max_chunks + 1]
    /\ stream_chunk_stack[max_chunks] = blocks[Len(blocks)]
    /\ stream_chunk_stack[1] # blocks[1]
    /\ stream_chunk_stack[1] # stream_chunk_stack[max_chunks]

\* C2: once compare_data has returned True no block is read, nothing is
\* appended and nothing is compared any more; the loop is left for the
\* message box only with a True verdict; and after any other verdict, or
\* after a `continue`, the program is at the next read unless it was
\* interrupted.
C2_StopsOnFirstTrue ==
    [][/\ result.ret = "True" =>
              /\ reads' = reads
              /\ stream_chunk_stack' = stream_chunk_stack
              /\ blocks' = blocks
              /\ result' = result
       /\ pc' \in {"msgbox", "returned"} => result'.ret = "True"
       /\ (pc = "compare" /\ pc' # "handler" /\ result'.ret # "True") => pc' = "read"
       /\ (pc = "push" /\ pc' \notin {"handler", "crashed", "compare"}) => pc' = "read"
      ]_vars

\* C2 witness: the run returned after a False verdict followed by a True one.
C2_Witness ==
    /\ pc = "returned"
    /\ result.ret = "True"
    /\ evals >= 2
    /\ reads = Len(blocks)

\* the number of compare_data calls due once k blocks have been appended
EvalsDue == IF Len(blocks) >= max_chunks /\ Len(blocks) > 0
            THEN Len(blocks) - max_chunks + 1
            ELSE 0

\* C3: compare_data is called with a stack of exactly max_chunks values,
\* never while the stack is shorter, and once for every block appended from
\* the max_chunks-th on, before the next block is read.
C3_EvaluatedOncePerPush ==
    /\ pc = "compare" => (Len(stream_chunk_stack) = max_chunks /\ evals = EvalsDue - 1)
    /\ pc \in {"read", "push", "msgbox", "returned"} => evals = EvalsDue
    /\ evals <= EvalsDue
    /\ evals > 0 => Len(stream_chunk_stack) = max_chunks
    /\ result.ret # "none" => Len(result.stack) = max_chunks

\* C3 witness: with max_chunks >= 2, the second evaluation is about to happen.
C3_Witness ==
    /\ pc = "compare"
    /\ max_chunks >= 2
    /\ evals = 1
    /\ Len(blocks) = max_chunks + 1

\* the sums of a sample's chunks, in order
Centers(sample_data) == [i \in 1..Len(sample_data) |-> sample_data[i].sum]

\* C4: with samples registered, what compare_data returns is the threshold
\* decision on the hit count of the first registered sample, whatever the
\* other samples hold.
C4_FirstSampleDecides ==
    result.ret # "none" =>
        /\ samples_chunk_stack # << >>
        /\ result.hits = ChunkMatchHits(samples_chunk_stack[1], result.stack)
        /\ result.ret = IF WithinMargin(result.hits, max_chunks_mns, max_chunks_pls)
                        THEN "True" ELSE "False"

\* C4 witness: compare_data returned False for a stack on which the second
\* registered sample, taken alone, is within the margin.
C4_Witness ==
    /\ result.ret = "False"
    /\ Len(samples_chunk_stack) = 2
    /\ WithinMargin(ChunkMatchHits(samples_chunk_stack[2], result.stack),
                    max_chunks_mns, max_chunks_pls)

\* the hit count as specified: the positions below min(chunk count,
\* capacity) whose value lies within the band, bounds included
BandHits(sample_data, stack) ==
    Cardinality({i \in 1..Min(Len(sample_data), Len(stack)) :
                    /\ sample_data[i].mns <= Hundred * stack[i]
                    /\ Hundred * stack[i] <= sample_data[i].pls})

\* C5: the hit count of the evaluated sample is the number of positions
\* whose stack value lies within the band of the sample's chunk, bounds
\* included, also for values of 0 and lower bounds of 0.
C5_HitsCountBand ==
    result.ret # "none" =>
        result.hits = BandHits(samples_chunk_stack[1], result.stack)

\* C6: when the compared stack holds exactly the chunk sums of a registered
\* sample with max_chunks chunks, every position of that sample is a hit and
\* the verdict is True.
C6_ExactReplayMatches ==
    result.ret # "none" =>
        \A k \in 1..Len(samples_chunk_stack) :
            (/\ Len(samples_chunk_stack[k]) = max_chunks
             /\ result.stack = Centers(samples_chunk_stack[k]))
            => /\ ChunkMatchHits(samples_chunk_stack[k], result.stack) = max_chunks
               /\ result.ret = "True"

\* every chunk of the sample has a sum above 0
NonSilent(sample_data) == \A i \in 1..Len(sample_data) : sample_data[i].sum > 0

\* every value of the stack is 0
AllSilence(stack) == \A i \in 1..Len(stack) : stack[i] = 0

\* C7: a sample without silent chunks compared with a stack of zeros has no
\* hit and the verdict is False, for a margin below 100.
C7_NoMatchOnSilence ==
    (/\ result.ret # "none"
     /\ error_margin < Hundred
     /\ NonSilent(samples_chunk_stack[1])
     /\ AllSilence(result.stack))
    => (result.hits = 0 /\ result.ret = "False")

\* C7 witness: a stack of two zeros was compared with a sample of two
\* non-silent chunks under a margin of 50.
C7_Witness ==
    /\ result.ret = "False"
    /\ error_margin = 50
    /\ Len(result.stack) = 2
    /\ AllSilence(result.stack)
    /\ Len(samples_chunk_stack[1]) = 2
    /\ NonSilent(samples_chunk_stack[1])

\* C8: when the program has ended and the microphone stream had been
\* opened, the stream is closed.
C8_StreamClosedAtEnd ==
    (Terminated /\ stream # "None") => stream = "closed"

\* the live detection has begun: the microphone is being opened or was
LiveDetection == pc \in {"open", "read", "push", "compare", "msgbox", "returned"}

\* C9: with no sample file the microphone stream is never opened and no
\* block is ever read.
C9_EmptyCollectionNotRun ==
    sample_files = << >> => (stream = "None" /\ reads = 0)

\* C10: with a sample file shorter than buffer_size in the collection, no
\* file after it is converted, the live detection never starts, no block is
\* read, and the conversion of the short file ends the program.
C10_ShortSampleFailsLoading ==
    \A i \in 1..Len(sample_files) :
        Len(sample_files[i]) < buffer_size =>
            /\ file_idx <= i
            /\ ~LiveDetection
            /\ stream = "None"
            /\ reads = 0
            /\ Len(samples_chunk_stack) >= i => pc = "crashed"

\* C10 witness: the first file was registered, the second one was too short
\* and left with its empty list, and the program has ended.
C10_Witness ==
    /\ pc = "crashed"
    /\ Len(sample_files) = 2
    /\ Len(sample_files[1]) >= buffer_size
    /\ Len(sample_files[2]) < buffer_size
    /\ Len(samples_chunk_stack) = 2
    /\ samples_chunk_stack[1] # << >>
    /\ samples_chunk_stack[2] = << >>
    /\ reads = 0

\* ------------------------------------------------- the loading on its own
\* convert_samples alone: the program up to the end of the loading
NextLoad ==
    \/ Construct
    \/ ConvertSample
    \/ ConvertSampleRaises
    \/ ConvertDone

SpecLoad == Init /\ [][NextLoad]_vars

\* the chunk counts of the sample files, in the order of the glob
Amounts == [i \in 1..Len(sample_files) |-> AmountOfChunks(sample_files[i], buffer_size)]

\* a sequence of numbers with x put before the first element above it
RECURSIVE Inserted(_, _)
Inserted(seq, x) ==
    IF seq = << >> THEN <<x>>
    ELSE IF x <= Head(seq) THEN <<x>> \o seq
    ELSE <<Head(seq)>> \o Inserted(Tail(seq), x)

\* a sequence of numbers in ascending order
RECURSIVE Ascending(_)
Ascending(seq) ==
    IF seq = << >> THEN << >>
    ELSE Inserted(Ascending(Tail(seq)), Head(seq))

\* the registry before any sample is added
EmptyRegistry == [max_chunks |-> 0, pls |-> 0, mns |-> 0]

\* the registry after adding samples of these chunk counts, in this order
RECURSIVE RegistryAfter(_, _)
RegistryAfter(amounts, margin) ==
    IF amounts = << >> THEN EmptyRegistry
    ELSE RegistryAdd(RegistryAfter(SubSeq(amounts, 1, Len(amounts) - 1), margin),
                     amounts[Len(amounts)], margin)

\* C11: when the loading is complete, max_chunks and its two margins are
\* what adding the same samples in ascending order of chunk count gives.
C11_OrderIndependent ==
    pc = "open" => Registry = RegistryAfter(Ascending(Amounts), error_margin)

\* C11 witness: two samples were loaded, the one with more chunks first.
C11_Witness ==
    /\ pc = "open"
    /\ Len(sample_files) = 2
    /\ Amounts[1] > Amounts[2]
    /\ error_margin = 50
    /\ max_chunks = Amounts[1]

\* the largest chunk count among the first n sample files, 0 for none
RECURSIVE MaxAmount(_)
MaxAmount(n) ==
    IF n = 0 THEN 0
    ELSE IF Amounts[n] > MaxAmount(n - 1) THEN Amounts[n] ELSE MaxAmount(n - 1)

\* max_chunks is the largest chunk count of the samples added so far and
\* the margins are max_chunks -/+ max_chunks * margin / 100
RegistryTracksMax ==
    /\ max_chunks = MaxAmount(file_idx - 1)
    /\ max_chunks_mns = Hundred * max_chunks - max_chunks * error_margin
    /\ max_chunks_pls = Hundred * max_chunks + max_chunks * error_margin

\* C12: after every addition max_chunks is the largest chunk count so far
\* with both margins computed from it, and an addition of a sample that is
\* not a new maximum changes none of the three.
C12_RegistryTracksMax ==
    [][/\ RegistryTracksMax'
       /\ (pc = "convert" /\ file_idx' = file_idx + 1
           /\ Amounts[file_idx] <= max_chunks) => Registry' = Registry
      ]_vars

\* C12 witness: a sample of fewer chunks than max_chunks was added after
\* the largest one, under a margin of 50.
C12_Witness ==
    /\ pc = "convert"
    /\ file_idx = 3
    /\ Amounts[1] > Amounts[2]
    /\ error_margin = 50
    /\ max_chunks = Amounts[1]
    /\ max_chunks_pls = (Hundred + error_margin) * Amounts[1]

\* ------------------------------------------------ the chunking on its own
\* the attributes of the class before run() is entered
Fresh ==
    /\ pc = "construct"
    /\ file_idx = 1
    /\ max_chunks = 0
    /\ max_chunks_pls = 0
    /\ max_chunks_mns = 0
    /\ samples_chunk_stack = << >>
    /\ stream = "None"
    /\ data = << >>
    /\ stream_chunk_stack = << >>
    /\ blocks = << >>
    /\ reads = 0
    /\ evals = 0
    /\ result = NoResult
    /\ exit_calls = 0

\* one sample file of up to MaxChunkSamples samples
InitChunk ==
    /\ sample_files \in {<<f>> : f \in SeqsUpTo(Amps, MaxChunkSamples)}
    /\ error_margin \in Margins
    /\ buffer_size \in BufferSizes
    /\ Fresh

\* convert_samples alone, over one longer sample file
SpecChunk == InitChunk /\ [][NextLoad]_vars

\* the samples that were registered completely
Loaded == {k \in 1..Len(samples_chunk_stack) : samples_chunk_stack[k] # << >>}

\* C14: every band built from a chunk sum (center) has
\* lower = center * (1 - margin/100) <= center <= upper = center * (1 + margin/100),
\* and with a margin of 0 all three are equal.
C14_BandAroundCenter ==
    \A k \in Loaded : \A i \in 1..Len(samples_chunk_stack[k]) :
        LET c == samples_chunk_stack[k][i]
        IN  /\ c.sum >= 0
            /\ c.mns = c.sum * (Hundred - error_margin)
            /\ c.pls = c.sum * (Hundred + error_margin)
            /\ c.mns <= Hundred * c.sum
            /\ Hundred * c.sum <= c.pls
            /\ error_margin = 0 => (c.mns = Hundred * c.sum /\ c.pls = Hundred * c.sum)

\* C14 witness: a chunk of sum 3 was registered under a margin of 50, with
\* its lower bound below and its upper bound above the sum.
C14_Witness ==
    /\ error_margin = 50
    /\ 1 \in Loaded
    /\ samples_chunk_stack[1][1].sum = 3
    /\ samples_chunk_stack[1][1].mns < Hundred * 3
    /\ samples_chunk_stack[1][1].pls > Hundred * 3

\* the chunks put together again
RECURSIVE Joined(_)
Joined(chunks) ==
    IF chunks = << >> THEN << >>
    ELSE Head(chunks) \o Joined(Tail(chunks))

\* C15: a sample of L samples with n = floor(L / buffer_size) >= 1 is split
\* in exactly n contiguous chunks that cover all L samples and differ in
\* length by at most 1, and it is registered with exactly n bands, the i-th
\* built from the i-th chunk.
C15_ChunkingExact ==
    \A k \in Loaded :
        LET data_points == sample_files[k]
            n == Len(data_points) \div buffer_size
            chunks == ArraySplit(data_points, n)
        IN  /\ n >= 1
            /\ DOMAIN chunks = 1..n
            /\ Joined(chunks) = data_points
            /\ \A i, j \in 1..n : Len(chunks[i]) - Len(chunks[j]) <= 1
            /\ DOMAIN samples_chunk_stack[k] = 1..n
            /\ \A i \in 1..n : samples_chunk_stack[k][i].sum = ChunkSum(chunks[i])

\* C15 witness: a sample of 5 samples was registered with buffer_size 2:
\* two bands, from chunks of 3 and of 2 samples.
C15_Witness ==
    /\ 1 \in Loaded
    /\ buffer_size = 2
    /\ Len(sample_files[1]) = 5
    /\ Len(samples_chunk_stack[1]) = 2
    /\ Len(ArraySplit(sample_files[1], 2)[1]) = 3
    /\ Len(ArraySplit(sample_files[1], 2)[2]) = 2
    /\ samples_chunk_stack[1][1].sum = 3

\* ------------------------------------------------ the end-to-end scenario
\* a run of `size` samples whose absolute values sum to `energy`
BlockOfEnergy(energy, size) == [i \in 1..size |-> IF i <= energy THEN -1 ELSE 0]

\* the chunk sums of the reference and the block sums of the live stream
ScenarioEnergies == <<10, 20, 30, 20, 10>>
ScenarioLive == <<11, 19, 31, 19, 11>>

\* the reference recording: 5 * 1024 samples, chunk by chunk of the energies
ScenarioReference ==
    [i \in 1..(Len(ScenarioEnergies) * BUFFER_SIZE) |->
        BlockOfEnergy(ScenarioEnergies[((i - 1) \div BUFFER_SIZE) + 1],
                      BUFFER_SIZE)[((i - 1) % BUFFER_SIZE) + 1]]

\* the blocks the microphone delivers in the scenario
ScenarioBlocks == {BlockOfEnergy(e, BUFFER_SIZE) : e \in {11, 19, 31}}

InitE2E ==
    /\ sample_files = <<ScenarioReference>>
    /\ error_margin = ERROR_MARGIN
    /\ buffer_size = BUFFER_SIZE
    /\ Fresh

\* data = self.stream.read(self.buffer_size), one of the scenario's blocks
ReadScenarioBlock ==
    /\ pc = "read"
    /\ reads < MaxScenarioBlocks
    /\ \E block \in ScenarioBlocks : data' = block
    /\ reads' = reads + 1
    /\ pc' = "push"
    /\ UNCHANGED <<config_vars, file_idx, registry_vars, stream, stream_chunk_stack,
                   blocks, evals, result, exit_calls>>

NextE2E ==
    \/ Construct
    \/ ConvertSample
    \/ ConvertDone
    \/ LoadMicrophoneStream
    \/ LoadMicrophoneStreamRaises
    \/ ReadScenarioBlock
    \/ ReadBlockRaises
    \/ PushBlock
    \/ Compare
    \/ MatchFound
    \/ KeyboardInterrupt
    \/ HandlerExit
    \/ HandlerNameError
    \/ HandlerExitRaises
    \/ SystemExitHandler

SpecE2E == InitE2E /\ [][NextE2E]_vars

\* the bands of the scenario, in hundredths: (5,15) (10,30) (15,45) (10,30) (5,15)
ScenarioBands ==
    <<[sum |-> 10, mns |->  500, pls |-> 1500],
      [sum |-> 20, mns |-> 1000, pls |-> 3000],
      [sum |-> 30, mns |-> 1500, pls |-> 4500],
      [sum |-> 20, mns |-> 1000, pls |-> 3000],
      [sum |-> 10, mns |->  500, pls |-> 1500]>>

\* C13: with buffer_size 1024, margin 50 and the reference of chunk sums
\* 10,20,30,20,10 the loading gives the bands above, max_chunks 5 and the
\* margins 2.5 and 7.5; no verdict exists before the 5th block; and the live
\* blocks 11,19,31,19,11 are compared once, unless the run is interrupted
\* first, with 5 hits, the verdict True and the end of the loop after the
\* 5th read.
C13_EndToEnd ==
    /\ file_idx = 2 =>
          /\ samples_chunk_stack = <<ScenarioBands>>
          /\ max_chunks = 5
          /\ max_chunks_mns = 250
          /\ max_chunks_pls = 750
    /\ Len(blocks) < 5 => (evals = 0 /\ result = NoResult)
    /\ (blocks = ScenarioLive /\ evals = 0) =>
          pc \notin {"read", "push", "msgbox", "returned"}
    /\ (blocks = ScenarioLive /\ evals > 0) =>
          /\ evals = 1
          /\ result = [ret |-> "True", hits |-> 5, stack |-> ScenarioLive]
          /\ reads = 5
          /\ pc \notin {"read", "push", "compare"}

\* C13 witness: the run returned after the blocks 11,19,31,19,11 with 5 hits.
C13_Witness ==
    /\ pc = "returned"
    /\ blocks = ScenarioLive
    /\ result.ret = "True"
    /\ result.hits = 5
    /\ reads = 5

\* ------------------------------------------------------ run() called again
\* run() is called again after it returned: convert_samples starts over at
\* the first file; nothing in run() resets the attributes of the class, so
\* the stream stack, the registry and the old stream object stay as they are
Restart ==
    /\ pc = "returned"
    /\ pc' = "convert"
    /\ file_idx' = 1
    /\ UNCHANGED <<config_vars, registry_vars, stream, loop_vars, exit_calls>>

NextRestart ==
    \/ Next
    \/ Restart

SpecRestart == Init /\ [][NextRestart]_vars

\* C16: at the start of every run, before its first block is read, the
\* stream stack is empty.
C16_WindowEmptyAtRunStart ==
    pc \in {"construct", "convert", "open"} => stream_chunk_stack = << >>

\* ------------------------------------------------- claims on the whole run
\* C17: once the live detection has begun no step changes the samples,
\* max_chunks or its margins; a call of compare_data leaves the stream stack
\* as it is; the stream stack changes only in the evict-and-append step.
C17_RegistryAndWindowFrame ==
    [][/\ LiveDetection => registry_vars' = registry_vars
       /\ pc = "compare" => stream_chunk_stack' = stream_chunk_stack
       /\ stream_chunk_stack' # stream_chunk_stack =>
              /\ pc = "push"
              /\ stream_chunk_stack' =
                     Append(Evicted(stream_chunk_stack, max_chunks), ChunkSum(data))
      ]_vars

\* C17 witness: compare_data has returned False twice and the stream stack
\* is still the one it compared last, with the registry loaded.
C17_Witness ==
    /\ pc = "read"
    /\ evals = 2
    /\ result.ret = "False"
    /\ result.stack = stream_chunk_stack
    /\ Len(samples_chunk_stack) = 2
    /\ max_chunks = 2

\* C18: when the first registered sample has fewer chunks than
\* max_chunks - max_chunks * margin / 100, every verdict is False and the
\* loop is never left for a match.
C18_ShortFirstSampleNeverMatches ==
    (/\ LiveDetection
     /\ samples_chunk_stack # << >>
     /\ Hundred * Len(samples_chunk_stack[1]) < max_chunks_mns)
    => (result.ret \in {"none", "False"} /\ pc \notin {"msgbox", "returned"})

\* C18 witness: the first sample has 1 chunk, max_chunks is 2 with margin 0,
\* and the stack that was compared holds the chunk sums of the second sample.
C18_Witness ==
    /\ Len(samples_chunk_stack) = 2
    /\ Len(samples_chunk_stack[1]) = 1
    /\ max_chunks = 2
    /\ error_margin = 0
    /\ result.ret = "False"
    /\ result.stack = Centers(samples_chunk_stack[2])
    /\ NonSilent(samples_chunk_stack[2])

\* C19: at every call of compare_data
\* 0 <= hits <= min(chunks of the first sample, max_chunks) <= max_chunks_pls,
\* and the verdict is True exactly when hits >= max_chunks_mns.
C19_CeilingNeverRejects ==
    result.ret # "none" =>
        LET most == Min(Len(samples_chunk_stack[1]), max_chunks)
        IN  /\ 0 <= result.hits
            /\ result.hits <= most
            /\ Hundred * most <= max_chunks_pls
            /\ result.ret = "True" <=> Hundred * result.hits >= max_chunks_mns

\* C19 witness: under a margin of 50 every position of a sample of
\* max_chunks = 2 chunks was a hit and the verdict was True.
C19_Witness ==
    /\ result.ret = "True"
    /\ error_margin = 50
    /\ max_chunks = 2
    /\ result.hits = 2
    /\ Len(samples_chunk_stack[1]) = 2

\* C20: exit() is called at most once and only on an open stream, which it
\* closes: never a second time, never before the stream exists.
C20_ExitOnlyOnOpenStream ==
    /\ exit_calls <= 1
    /\ exit_calls = 1 => stream = "closed"
====
